---- MODULE Spec2Model ----
(***************************************************************************)
(* A model of crates/git_ui/src/project_diff.rs: the ProjectDiff item, its *)
(* update_needed watch channel, the worker handle_status_updates and the   *)
(* refresh pass it runs (load_buffers, the spawned loads, register_buffer, *)
(* pending_scroll.take()).                                                 *)
(*                                                                         *)
(* The worker is a task of a single-threaded cooperative executor: it runs *)
(* from one suspension point (recv.next().await with nothing to receive,   *)
(* buffer_to_load.await on a load that has not finished) to the next       *)
(* without any other handler running in between.  WorkerReceive and        *)
(* WorkerResume are those runs.                                            *)
(*                                                                         *)
(* Spec is the program with its environment (repository updates, requests  *)
(* of navigation, loads that end, release).  FairSpec adds the fairness of *)
(* the executor, for what eventually happens.  FocusSpec lets the focus    *)
(* move and the user unfold a buffer.  OrderSpec and RequestSpec keep the  *)
(* load that ended last and the last call of move_to_entry.  ClassifySpec  *)
(* and ButtonsSpec call the functions without side effect on their own,    *)
(* over every input: the key of an entry, and button_states.               *)
(***************************************************************************)
EXTENDS Integers, Sequences, FiniteSets, TLC

\* ----------------------------------------------------------------- bounds
NumPaths == 3
MaxEvents == 2
MaxFailures == 1
MaxRows == 2
MaxSelections == 2

RepoPaths == 1..NumPaths

\* ------------------------------------------------------ program constants
\* The namespaces are the strings "0", "1", "2"; they are compared as keys,
\* and the numbers compare as the strings do.
CONFLICT_NAMESPACE == 0
TRACKED_NAMESPACE == 1

\* Mutant: the namespace of new files sorts first.
NEW_NAMESPACE_First == CONFLICT_NAMESPACE - 1

NEW_NAMESPACE == 2

VARIABLES
    this,               \* the ProjectDiff: multibuffer, pending_scroll, and its editor's selection, folds, focus
    update_needed,      \* the postage::watch channel between the senders and the worker's recv
    pc,                 \* the worker's position: "waiting", "loading", "done"
    buffers_to_load,    \* the loads of the current pass that the worker has not awaited yet
    alive,              \* the ProjectDiff entity and its window exist
    active_repository,  \* git_store.active_repository() is Some
    statuses,           \* repo.status(): the status of every repo path
    conflicts,          \* the repo paths for which repo.has_conflict holds
    unmapped,           \* the repo paths for which repo_path_to_project_path is None
    pass,               \* history: what the pass in progress (or the last one) read and did
                        \* (order: the keys it registered, in the order of registration;
                        \* into_empty: the focus before and after its registration into an
                        \* empty view; kept_unfolded: the unfolded buffers of the loads with
                        \* status deleted it registered for keys already in the view)
    ended,              \* history: the end of the last completed pass, and of the one before
    events,             \* history: the number of git store events and user requests so far,
                        \* of failed loads, and of passes completed when pending_scroll was last set
    returned            \* the last call of a function on its own: its name, arguments and value
                        \* (where the loads or the requests are observed: the last load
                        \* that ended, the last call of move_to_entry)

vars == <<this, update_needed, pc, buffers_to_load, alive, active_repository,
          statuses, conflicts, unmapped, pass, ended, events, returned>>

\* ------------------------------------------------------------ Option<T>
None == {}
Some(x) == {x}

\* --------------------------------------------------------------- PathKey
PathKey(namespace, path) == [namespace |-> namespace, path |-> path]

\* The derived order of PathKey: by namespace, then by path.
KeyLess(a, b) ==
    \/ a.namespace < b.namespace
    \/ a.namespace = b.namespace /\ a.path < b.path

\* ------------------------------------------------------------ FileStatus
\* A status is "none" (the path has no entry), "unchanged", "modified",
\* "created" or "deleted".
has_changes(status) == status \notin {"none", "unchanged"}

is_created(status) == status = "created"

is_deleted(status) == status = "deleted"

\* ------------------------------------------------------------ Repository
has_conflict(repo_path) == repo_path \in conflicts

repo_path_to_project_path(repo_path) ==
    IF repo_path \in unmapped THEN None ELSE Some(repo_path)

\* Mutant: the ranges of a path that has an excerpt already are added to the
\* ranges it has.
DiffHunkRangesAccumulated(path) ==
    LET old == {e \in {this.multibuffer[i] : i \in 1..Len(this.multibuffer)} : e.key.path = path}
    IN  IF old = {} THEN <<statuses[path]>>
        ELSE <<statuses[path]>> \o (CHOOSE e \in old : TRUE).ranges

\* The hunks of a path's uncommitted diff, as the diff entity holds them now:
\* they follow the state of the file in the work tree.
DiffHunkRanges(path) == <<statuses[path]>>

\* ----------------------------------------------------------- MultiBuffer
\* The merged view: excerpt records [key, ranges], one per path key, kept in
\* the order of the keys.
MultiBufferNew == <<>>

MultiBufferPaths(mb) == {mb[i].key : i \in 1..Len(mb)}

MultiBufferIsEmpty(mb) == Len(mb) = 0

MultiBufferClear(mb) == <<>>

RemoveExcerptsForPath(mb, path_key) ==
    SelectSeq(mb, LAMBDA e : e.key # path_key)

\* set_excerpts_for_path: replaces the excerpt of an existing key in place,
\* inserts the excerpt of a new key after the excerpts of the smaller keys.
SetExcerptsForPath(mb, path_key, ranges) ==
    LET before == SelectSeq(mb, LAMBDA e : KeyLess(e.key, path_key))
        after == SelectSeq(mb, LAMBDA e : KeyLess(path_key, e.key))
    IN  before \o <<[key |-> path_key, ranges |-> ranges]>> \o after

\* What set_excerpts_for_path returns.
IsNewlyAdded(mb, path_key) == path_key \notin MultiBufferPaths(mb)

\* location_for_path: the anchor at the start of the key's excerpt.
ExcerptStart(path_key) == [kind |-> "excerpt", key |-> Some(path_key)]

LocationForPath(mb, path_key) ==
    IF path_key \in MultiBufferPaths(mb) THEN Some(ExcerptStart(path_key)) ELSE None

\* ---------------------------------------------------------------- Editor
Offset0 == [kind |-> "offset", key |-> None]

\* select_ranges([position..position])
EmptyRangeAt(position) == [start |-> position, end |-> position]

\* ----------------------------------------------------- the watch channel
\* Mutant: the channel queues every value written.
QueueSend(channel) == Append(channel, "()")

\* update_needed holds the value the receiver has not seen yet, if any.
\* `*sender.borrow_mut() = ()` overwrites the slot.
WatchSend(channel) == <<"()">>

\* recv.next() has a value to return
WatchReady(channel) == Len(channel) > 0

\* the channel after recv.next() returned Some
WatchNext(channel) == Tail(channel)

\* ------------------------------------------------------------ ProjectDiff
\* ProjectDiff::new: the fields, the editor's initial selection and folds.
ProjectDiffNew(focus) ==
    [multibuffer |-> MultiBufferNew,
     pending_scroll |-> None,
     selection |-> EmptyRangeAt(Offset0),
     folded |-> {},
     focus |-> focus]

\* Mutant: the request is always recorded as pending, never performed.
move_to_path_pending(t, path_key) ==
    [t EXCEPT !.pending_scroll = Some(path_key)]

\* Mutant: a request for a key without excerpt inserts an empty excerpt for it
\* and selects it.
move_to_path_inserts(t, path_key) ==
    LET mb == SetExcerptsForPath(t.multibuffer, path_key, <<>>)
    IN  [t EXCEPT !.multibuffer = mb,
                  !.selection = EmptyRangeAt(ExcerptStart(path_key))]

\* move_to_path
move_to_path(t, path_key) ==
    LET location == LocationForPath(t.multibuffer, path_key)
    IN  IF location # None
        THEN [t EXCEPT !.selection = EmptyRangeAt(CHOOSE position \in location : TRUE)]
        ELSE [t EXCEPT !.pending_scroll = Some(path_key)]

\* move_to_entry: the namespace of the entry's key
MoveToEntryNamespace(entry) ==
    IF has_conflict(entry.repo_path) THEN CONFLICT_NAMESPACE
    ELSE IF is_created(entry.status) THEN NEW_NAMESPACE
    ELSE TRACKED_NAMESPACE

\* Mutant: the request is served without looking for an active repository.
move_to_entry_AnyRepository(t, entry) ==
    move_to_path(t, PathKey(MoveToEntryNamespace(entry), entry.repo_path))

\* move_to_entry
move_to_entry(t, entry) ==
    IF ~active_repository
    THEN t
    ELSE move_to_path(t, PathKey(MoveToEntryNamespace(entry), entry.repo_path))

\* Mutant: a created file is New also when it has a conflict.
LoadBuffersNamespaceCreatedFirst(entry) ==
    IF is_created(entry.status) THEN NEW_NAMESPACE
    ELSE IF has_conflict(entry.repo_path) THEN CONFLICT_NAMESPACE
    ELSE TRACKED_NAMESPACE

\* load_buffers: the namespace of the entry's key
LoadBuffersNamespace(entry) ==
    IF has_conflict(entry.repo_path) THEN CONFLICT_NAMESPACE
    ELSE IF is_created(entry.status) THEN NEW_NAMESPACE
    ELSE TRACKED_NAMESPACE

\* The task load_buffers spawns for one entry: open_buffer, then
\* open_uncommitted_diff, then Ok(DiffBuffer); either await may fail.
\* `pass` is the number of the pass that issued it.
SpawnLoad(path_key, entry, n) ==
    [path_key |-> path_key,
     buffer |-> entry.repo_path,
     file_status |-> entry.status,
     state |-> "running",
     pass |-> n]

\* Mutant: an entry without changes is loaded like the others.
SkipsEntryOnlyUnmapped(entry) ==
    repo_path_to_project_path(entry.repo_path) = None

\* load_buffers: whether the loop body skips the entry (the two `continue`s)
SkipsEntry(entry) ==
    \/ ~has_changes(entry.status)
    \/ repo_path_to_project_path(entry.repo_path) = None

\* Mutant: an entry without a project path ends the loop (`break`).
RECURSIVE LoadEntriesStopsAtUnmapped(_, _, _)
LoadEntriesStopsAtUnmapped(repo_path, acc, n) ==
    IF repo_path > NumPaths THEN acc
    ELSE IF statuses[repo_path] = "none" THEN LoadEntriesStopsAtUnmapped(repo_path + 1, acc, n)
    ELSE LET entry == [repo_path |-> repo_path, status |-> statuses[repo_path]]
             path_key == PathKey(LoadBuffersNamespace(entry), repo_path)
         IN  IF ~has_changes(entry.status)
             THEN LoadEntriesStopsAtUnmapped(repo_path + 1, acc, n)
             ELSE IF repo_path_to_project_path(entry.repo_path) = None
             THEN acc
             ELSE LoadEntriesStopsAtUnmapped(repo_path + 1,
                      [previous_paths |-> acc.previous_paths \ {path_key},
                       result |-> Append(acc.result, SpawnLoad(path_key, entry, n))],
                      n)

\* Mutant: the key of an entry is taken out of previous_paths before the
\* entry is looked at, so every reported entry keeps its key in the view.
RECURSIVE LoadEntriesProtectsSkipped(_, _, _)
LoadEntriesProtectsSkipped(repo_path, acc, n) ==
    IF repo_path > NumPaths THEN acc
    ELSE IF statuses[repo_path] = "none" THEN LoadEntriesProtectsSkipped(repo_path + 1, acc, n)
    ELSE LET entry == [repo_path |-> repo_path, status |-> statuses[repo_path]]
             path_key == PathKey(LoadBuffersNamespace(entry), repo_path)
         IN  IF SkipsEntry(entry)
             THEN LoadEntriesProtectsSkipped(repo_path + 1,
                      [acc EXCEPT !.previous_paths = @ \ {path_key}], n)
             ELSE LoadEntriesProtectsSkipped(repo_path + 1,
                      [previous_paths |-> acc.previous_paths \ {path_key},
                       result |-> Append(acc.result, SpawnLoad(path_key, entry, n))],
                      n)

\* load_buffers: the loop over repo.status(), in the order of the paths.
\* acc is [previous_paths, result].
RECURSIVE LoadEntries(_, _, _)
LoadEntries(repo_path, acc, n) ==
    IF repo_path > NumPaths THEN acc
    ELSE IF statuses[repo_path] = "none" THEN LoadEntries(repo_path + 1, acc, n)
    ELSE LET entry == [repo_path |-> repo_path, status |-> statuses[repo_path]]
             path_key == PathKey(LoadBuffersNamespace(entry), repo_path)
         IN  IF SkipsEntry(entry)
             THEN LoadEntries(repo_path + 1, acc, n)
             ELSE LoadEntries(repo_path + 1,
                      [previous_paths |-> acc.previous_paths \ {path_key},
                       result |-> Append(acc.result, SpawnLoad(path_key, entry, n))],
                      n)

\* Mutant: nothing is removed.
KeepPreviousPaths(mb, previous_paths) == mb

\* Mutant: one of the paths left is removed, not all.
RemoveOnePreviousPath(mb, previous_paths) ==
    IF previous_paths = {} THEN mb
    ELSE RemoveExcerptsForPath(mb, CHOOSE k \in previous_paths :
                                       \A other \in previous_paths : ~KeyLess(other, k))

\* load_buffers: the removal of what is left in previous_paths
RECURSIVE RemovePreviousPaths(_, _)
RemovePreviousPaths(mb, previous_paths) ==
    IF previous_paths = {} THEN mb
    ELSE LET path == CHOOSE k \in previous_paths : TRUE
         IN  RemovePreviousPaths(RemoveExcerptsForPath(mb, path), previous_paths \ {path})

\* Mutant: without an active repository the view is left as it is.
load_buffers_KeepsViewWithoutRepository(t, n) ==
    IF ~active_repository
    THEN [this |-> t, result |-> <<>>]
    ELSE LET acc == LoadEntries(1, [previous_paths |-> MultiBufferPaths(t.multibuffer),
                                    result |-> <<>>], n)
         IN  [this |-> [t EXCEPT !.multibuffer = RemovePreviousPaths(@, acc.previous_paths)],
              result |-> acc.result]

\* Mutant: when loads are issued, the removal of the previous paths is left to
\* a later pass that issues none.
load_buffers_RemovesOnlyWithoutLoads(t, n) ==
    IF ~active_repository
    THEN [this |-> [t EXCEPT !.multibuffer = MultiBufferClear(@)], result |-> <<>>]
    ELSE LET acc == LoadEntries(1, [previous_paths |-> MultiBufferPaths(t.multibuffer),
                                    result |-> <<>>], n)
         IN  [this |-> [t EXCEPT !.multibuffer =
                                     IF acc.result = <<>>
                                     THEN RemovePreviousPaths(@, acc.previous_paths)
                                     ELSE @],
              result |-> acc.result]

\* load_buffers: [this, result]
load_buffers(t, n) ==
    IF ~active_repository
    THEN [this |-> [t EXCEPT !.multibuffer = MultiBufferClear(@)], result |-> <<>>]
    ELSE LET acc == LoadEntries(1, [previous_paths |-> MultiBufferPaths(t.multibuffer),
                                    result |-> <<>>], n)
         IN  [this |-> [t EXCEPT !.multibuffer = RemovePreviousPaths(@, acc.previous_paths)],
              result |-> acc.result]

\* Mutant: every registration resets the selection.
SelectionAfterInsertAlways(selection, was_empty) == EmptyRangeAt(Offset0)

\* register_buffer: the selection reset of a view that was empty
SelectionAfterInsert(selection, was_empty) ==
    IF was_empty THEN EmptyRangeAt(Offset0) ELSE selection

\* Mutant: register_buffer folds nothing.
FoldedAfterInsertNever(folded, is_excerpt_newly_added, diff_buffer) == folded

\* Mutant: register_buffer folds the buffer of every deleted file, also when
\* its key had an excerpt already.
FoldedAfterInsertEveryDeleted(folded, is_excerpt_newly_added, diff_buffer) ==
    IF is_deleted(diff_buffer.file_status)
    THEN folded \cup {diff_buffer.buffer}
    ELSE folded

\* register_buffer: fold_buffer of a newly added deleted file
FoldedAfterInsert(folded, is_excerpt_newly_added, diff_buffer) ==
    IF is_excerpt_newly_added /\ is_deleted(diff_buffer.file_status)
    THEN folded \cup {diff_buffer.buffer}
    ELSE folded

\* Mutant: the editor takes the focus whenever the view has excerpts.
FocusAfterInsertSteals(focus, mb) ==
    IF MultiBufferIsEmpty(mb) /\ focus = "editor" THEN "container"
    ELSE IF ~MultiBufferIsEmpty(mb) THEN "editor"
    ELSE focus

\* register_buffer: the focus hand-over between the container and the editor
FocusAfterInsert(focus, mb) ==
    IF MultiBufferIsEmpty(mb) /\ focus = "editor" THEN "container"
    ELSE IF focus = "container" /\ ~MultiBufferIsEmpty(mb) THEN "editor"
    ELSE focus

\* Mutant: register_buffer never navigates.
ScrollIfPendingNever(t, path_key) == t

\* register_buffer: the pending navigation
ScrollIfPending(t, path_key) ==
    IF t.pending_scroll = Some(path_key) THEN move_to_path(t, path_key) ELSE t

\* register_buffer
register_buffer(t, diff_buffer) ==
    LET path_key == diff_buffer.path_key
        diff_hunk_ranges == DiffHunkRanges(diff_buffer.buffer)
        was_empty == MultiBufferIsEmpty(t.multibuffer)
        is_excerpt_newly_added == IsNewlyAdded(t.multibuffer, path_key)
        mb == SetExcerptsForPath(t.multibuffer, path_key, diff_hunk_ranges)
        t1 == [t EXCEPT !.multibuffer = mb,
                        !.selection = SelectionAfterInsert(@, was_empty),
                        !.folded = FoldedAfterInsert(@, is_excerpt_newly_added, diff_buffer),
                        !.focus = FocusAfterInsert(@, mb)]
    IN  ScrollIfPending(t1, path_key)

\* ---------------------------------------------------------- button_states
\* The snapshot of the multibuffer as button_states reads it is
\* [rows, starts]: the rows of the excerpts, one after the other, each row
\* "context" or the secondary status of the diff hunk on it, and the set of
\* the rows at which an excerpt starts.
\* A position is [row, column]; the selections are [ranges, newest], a set of
\* disjoint ranges [start, end] and the newest of them.
SecondaryStatuses ==
    {"HasSecondaryHunk", "SecondaryHunkAdditionPending", "OverlapsWithSecondaryHunk",
     "None", "SecondaryHunkRemovalPending"}

AnchorLess(a, b) ==
    \/ a.row < b.row
    \/ a.row = b.row /\ a.column < b.column

\* snapshot.diff_hunks(): the hunks of the snapshot, in the order of the rows
DiffHunks(snapshot) ==
    LET hunk_rows == {i \in 1..Len(snapshot.rows) : snapshot.rows[i] # "context"}
        RECURSIVE Collect(_, _)
        Collect(i, acc) ==
            IF i > Len(snapshot.rows) THEN acc
            ELSE Collect(i + 1,
                         IF i \in hunk_rows
                         THEN Append(acc, [row |-> i, secondary_status |-> snapshot.rows[i]])
                         ELSE acc)
    IN  Collect(1, <<>>)

\* editor.active_excerpt: the range of the excerpt that holds the head of the
\* newest selection, None in a multibuffer without excerpts.
active_excerpt(snapshot, selections) ==
    IF snapshot.rows = <<>> THEN None
    ELSE LET head == selections.newest.end.row
             first == CHOOSE i \in snapshot.starts :
                          i <= head /\ \A j \in snapshot.starts : j <= head => j <= i
             later == {j \in snapshot.starts : j > head}
             last == IF later = {} THEN Len(snapshot.rows)
                     ELSE (CHOOSE j \in later : \A k \in later : j <= k) - 1
         IN  Some([start |-> [row |-> first, column |-> 0],
                   end |-> [row |-> last, column |-> 1]])

\* editor.diff_hunks_in_ranges: the hunks on a row that a range touches
diff_hunks_in_ranges(ranges, snapshot) ==
    SelectSeq(DiffHunks(snapshot),
              LAMBDA hunk : \E range \in ranges :
                                range.start.row <= hunk.row /\ hunk.row <= range.end.row)

\* button_states: `selection`, whether some selection range is not empty
HasRangeSelection(selections) ==
    \E range \in selections.ranges : range.start # range.end

\* Mutant: the selections are the active range set also when all are empty.
ScannedRangesNoFallback(snapshot, selections) == selections.ranges

\* button_states: the ranges whose hunks are scanned
ScannedRanges(snapshot, selections) ==
    IF HasRangeSelection(selections) THEN selections.ranges
    ELSE active_excerpt(snapshot, selections)

\* Mutant: a hunk that overlaps a secondary hunk counts as staged only.
HunkFlagsOverlapIsStaged(flags, secondary_status) ==
    IF secondary_status \in {"HasSecondaryHunk", "SecondaryHunkAdditionPending"}
    THEN [flags EXCEPT !.has_unstaged_hunks = TRUE]
    ELSE [flags EXCEPT !.has_staged_hunks = TRUE]

\* button_states: the match on hunk.secondary_status
HunkFlags(flags, secondary_status) ==
    IF secondary_status \in {"HasSecondaryHunk", "SecondaryHunkAdditionPending"}
    THEN [flags EXCEPT !.has_unstaged_hunks = TRUE]
    ELSE IF secondary_status = "OverlapsWithSecondaryHunk"
    THEN [has_staged_hunks |-> TRUE, has_unstaged_hunks |-> TRUE]
    ELSE [flags EXCEPT !.has_staged_hunks = TRUE]

\* button_states: the for loop over the hunks
RECURSIVE ScanHunks(_, _)
ScanHunks(hunks, flags) ==
    IF hunks = <<>> THEN flags
    ELSE ScanHunks(Tail(hunks), HunkFlags(flags, Head(hunks).secondary_status))

\* button_states. git_panel is what workspace.panel::<GitPanel> gives: None,
\* or Some([can_stage_all, can_unstage_all]).
button_states(snapshot, selections, git_panel) ==
    LET flags == ScanHunks(diff_hunks_in_ranges(ScannedRanges(snapshot, selections), snapshot),
                           [has_staged_hunks |-> FALSE, has_unstaged_hunks |-> FALSE])
    IN  [stage |-> flags.has_unstaged_hunks,
         unstage |-> flags.has_staged_hunks,
         prev_next |-> Len(DiffHunks(snapshot)) > 1,
         selection |-> HasRangeSelection(selections),
         stage_all |-> \E panel \in git_panel : panel.can_stage_all,
         unstage_all |-> \E panel \in git_panel : panel.can_unstage_all]

\* --------------------------------------------------- handle_status_updates
\* The keys of the status entries with changes, as load_buffers would
\* classify them (history only).
ChangedKeys ==
    {PathKey(LoadBuffersNamespace([repo_path |-> p, status |-> statuses[p]]), p) :
        p \in {q \in RepoPaths : has_changes(statuses[q])}}

TaskKeys(tasks) == {tasks[i].path_key : i \in 1..Len(tasks)}

Finished(task) == task.state \in {"ok", "err"}

\* The worker's local state is w = [this, channel, pc, tasks, pass, ended].

\* recv.next() returned Some: load_buffers
BeginPass(w) ==
    LET n == w.pass.n + 1
        loaded == load_buffers(w.this, n)
        read == [repo |-> active_repository, statuses |-> statuses,
                 conflicts |-> conflicts, unmapped |-> unmapped]
    IN  [w EXCEPT !.channel = WatchNext(@),
                  !.this = loaded.this,
                  !.pc = "loading",
                  !.tasks = loaded.result,
                  !.pass = [n |-> n,
                            after |-> w.pass.after + 1,
                            snapshot |-> read,
                            prev |-> MultiBufferPaths(w.this.multibuffer),
                            changed |-> IF active_repository THEN ChangedKeys ELSE {},
                            issued |-> TaskKeys(loaded.result),
                            registered |-> {},
                            order |-> <<>>,
                            failed |-> {},
                            scrolled |-> {},
                            into_empty |-> None, kept_unfolded |-> {},
                            signals |-> 0]]

\* History of a registration: the buffer of a load with status deleted that is
\* registered for a key with an excerpt in the view while the buffer is not
\* folded.
KeptUnfolded(t, task) ==
    IF /\ ~IsNewlyAdded(t.multibuffer, task.path_key)
       /\ is_deleted(task.file_status)
       /\ task.buffer \notin t.folded
    THEN {task.buffer}
    ELSE {}

\* Mutant: a failed load ends the for loop and the loads left are dropped.
AwaitHeadBreaksOnError(w) ==
    LET task == Head(w.tasks)
    IN  IF task.state = "ok"
        THEN [w EXCEPT !.tasks = Tail(@),
                       !.this = register_buffer(w.this, task),
                       !.pass.registered = @ \cup {task.path_key},
                       !.pass.order = Append(@, task.path_key),
                       !.pass.scrolled = @ \cup
                           (IF w.this.pending_scroll = Some(task.path_key)
                            THEN {task.path_key} ELSE {}),
                       !.pass.kept_unfolded = @ \cup KeptUnfolded(w.this, task),
                       !.pass.into_empty =
                           IF MultiBufferIsEmpty(w.this.multibuffer)
                           THEN Some([before |-> w.this.focus,
                                      after |-> register_buffer(w.this, task).focus])
                           ELSE @]
        ELSE [w EXCEPT !.tasks = <<>>,
                       !.pass.failed = @ \cup {task.path_key}]

\* Mutant: the error of a failed load is returned with `?` and ends the worker.
AwaitHeadReturnsError(w) ==
    LET task == Head(w.tasks)
    IN  IF task.state = "ok"
        THEN [w EXCEPT !.tasks = Tail(@),
                       !.this = register_buffer(w.this, task),
                       !.pass.registered = @ \cup {task.path_key},
                       !.pass.order = Append(@, task.path_key),
                       !.pass.scrolled = @ \cup
                           (IF w.this.pending_scroll = Some(task.path_key)
                            THEN {task.path_key} ELSE {}),
                       !.pass.kept_unfolded = @ \cup KeptUnfolded(w.this, task),
                       !.pass.into_empty =
                           IF MultiBufferIsEmpty(w.this.multibuffer)
                           THEN Some([before |-> w.this.focus,
                                      after |-> register_buffer(w.this, task).focus])
                           ELSE @]
        ELSE [w EXCEPT !.tasks = <<>>,
                       !.pc = "done",
                       !.pass.failed = @ \cup {task.path_key}]

\* Mutant: a failed load removes the excerpt of its key.
AwaitHeadRemovesFailed(w) ==
    LET task == Head(w.tasks)
    IN  IF task.state = "ok"
        THEN [w EXCEPT !.tasks = Tail(@),
                       !.this = register_buffer(w.this, task),
                       !.pass.registered = @ \cup {task.path_key},
                       !.pass.order = Append(@, task.path_key),
                       !.pass.scrolled = @ \cup
                           (IF w.this.pending_scroll = Some(task.path_key)
                            THEN {task.path_key} ELSE {}),
                       !.pass.kept_unfolded = @ \cup KeptUnfolded(w.this, task),
                       !.pass.into_empty =
                           IF MultiBufferIsEmpty(w.this.multibuffer)
                           THEN Some([before |-> w.this.focus,
                                      after |-> register_buffer(w.this, task).focus])
                           ELSE @]
        ELSE [w EXCEPT !.tasks = Tail(@),
                       !.this.multibuffer = RemoveExcerptsForPath(@, task.path_key),
                       !.pass.failed = @ \cup {task.path_key}]

\* Mutant: the worker takes the load issued last among those that have ended,
\* not the next of the for loop.
AwaitHeadTakesLastFinished(w) ==
    LET i == CHOOSE k \in 1..Len(w.tasks) :
                 Finished(w.tasks[k]) /\ \A later \in (k + 1)..Len(w.tasks) : ~Finished(w.tasks[later])
        task == w.tasks[i]
        rest == SubSeq(w.tasks, 1, i - 1) \o SubSeq(w.tasks, i + 1, Len(w.tasks))
    IN  IF task.state = "ok"
        THEN [w EXCEPT !.tasks = rest,
                       !.this = register_buffer(w.this, task),
                       !.pass.registered = @ \cup {task.path_key},
                       !.pass.order = Append(@, task.path_key),
                       !.pass.scrolled = @ \cup
                           (IF w.this.pending_scroll = Some(task.path_key)
                            THEN {task.path_key} ELSE {}),
                       !.pass.kept_unfolded = @ \cup KeptUnfolded(w.this, task),
                       !.pass.into_empty =
                           IF MultiBufferIsEmpty(w.this.multibuffer)
                           THEN Some([before |-> w.this.focus,
                                      after |-> register_buffer(w.this, task).focus])
                           ELSE @]
        ELSE [w EXCEPT !.tasks = rest,
                       !.pass.failed = @ \cup {task.path_key}]

\* buffer_to_load.await returned: register_buffer for Ok, log_err for Err
AwaitHead(w) ==
    LET task == Head(w.tasks)
        registered == register_buffer(w.this, task)
    IN  IF task.state = "ok"
        THEN [w EXCEPT !.tasks = Tail(@),
                       !.this = registered,
                       !.pass.registered = @ \cup {task.path_key},
                       !.pass.order = Append(@, task.path_key),
                       !.pass.scrolled = @ \cup
                           (IF w.this.pending_scroll = Some(task.path_key)
                            THEN {task.path_key} ELSE {}),
                       !.pass.kept_unfolded = @ \cup KeptUnfolded(w.this, task),
                       !.pass.into_empty =
                           IF MultiBufferIsEmpty(w.this.multibuffer)
                           THEN Some([before |-> w.this.focus,
                                      after |-> registered.focus])
                           ELSE @]
        ELSE [w EXCEPT !.tasks = Tail(@),
                       !.pass.failed = @ \cup {task.path_key}]

\* Mutant: pending_scroll is not taken at the end of the pass.
EndPassKeepsPending(w) ==
    [w EXCEPT !.pc = "waiting",
              !.ended = [n |-> w.pass.n,
                         view |-> w.this.multibuffer,
                         pending |-> w.this.pending_scroll,
                         pass |-> w.pass,
                         last |-> [view |-> w.ended.view, pass |-> w.ended.pass]]]

\* Mutant: the end of the pass takes the signals that arrived during it out of
\* the channel.
EndPassDrainsChannel(w) ==
    [w EXCEPT !.this.pending_scroll = None,
              !.channel = <<>>,
              !.pc = "waiting",
              !.ended = [n |-> w.pass.n,
                         view |-> w.this.multibuffer,
                         pending |-> w.this.pending_scroll,
                         pass |-> w.pass,
                         last |-> [view |-> w.ended.view, pass |-> w.ended.pass]]]

\* the for loop is over: this.pending_scroll.take()
EndPass(w) ==
    [w EXCEPT !.this.pending_scroll = None,
              !.pc = "waiting",
              !.ended = [n |-> w.pass.n,
                         view |-> w.this.multibuffer,
                         pending |-> w.this.pending_scroll,
                         pass |-> w.pass,
                         last |-> [view |-> w.ended.view, pass |-> w.ended.pass]]]

\* Whether the for loop has a load left to await
LoopHasNext(tasks) == tasks # <<>>

\* Mutant: a signal in the channel starts a pass at once, also while the loads
\* of the pass in progress are awaited.
RECURSIVE WorkerRunRestarts(_)
WorkerRunRestarts(w) ==
    IF w.pc = "done" THEN w
    ELSE IF WatchReady(w.channel) THEN WorkerRunRestarts(BeginPass(w))
    ELSE IF w.pc = "waiting" THEN w
    ELSE IF ~LoopHasNext(w.tasks) THEN WorkerRunRestarts(EndPass(w))
    ELSE IF Finished(Head(w.tasks)) THEN WorkerRunRestarts(AwaitHead(w))
    ELSE w

\* The worker runs until it has to wait: for a signal, or for the load it awaits.
\* (Each step's result is bound as a value before the run goes on from it.)
RECURSIVE WorkerRun(_)
WorkerRun(w) ==
    IF w.pc = "done" THEN w
    ELSE IF w.pc = "waiting"
    THEN IF WatchReady(w.channel)
         THEN CHOOSE end \in {WorkerRun(begun) : begun \in {BeginPass(w)}} : TRUE
         ELSE w
    ELSE IF ~LoopHasNext(w.tasks)
    THEN CHOOSE end \in {WorkerRun(ended_pass) : ended_pass \in {EndPass(w)}} : TRUE
    ELSE IF Finished(Head(w.tasks))
    THEN CHOOSE end \in {WorkerRun(awaited) : awaited \in {AwaitHead(w)}} : TRUE
    ELSE w

Worker ==
    [this |-> this, channel |-> update_needed, pc |-> pc, tasks |-> buffers_to_load,
     pass |-> pass, ended |-> ended]

WorkerSteps ==
    \E w \in {WorkerRun(worker) : worker \in {Worker}} :
        /\ this' = w.this
        /\ update_needed' = w.channel
        /\ pc' = w.pc
        /\ buffers_to_load' = w.tasks
        /\ pass' = w.pass
        /\ ended' = w.ended
        /\ UNCHANGED <<alive, active_repository, statuses, conflicts, unmapped, events,
                       returned>>

\* ------------------------------------------------------------------- Init
\* The focus is on "container" (ProjectDiff::focus_handle), on "editor" or on
\* "other" (an element outside the ProjectDiff).
NoPass ==
    [n |-> 0,
     snapshot |-> [repo |-> TRUE, statuses |-> [p \in RepoPaths |-> "none"],
                   conflicts |-> {}, unmapped |-> {}],
     after |-> 0, prev |-> {}, changed |-> {}, issued |-> {}, registered |-> {},
     order |-> <<>>,
     failed |-> {}, scrolled |-> {}, into_empty |-> None, kept_unfolded |-> {}, signals |-> 0]

NoneEnded ==
    [n |-> 0, view |-> <<>>, pending |-> None, pass |-> NoPass,
     last |-> [view |-> <<>>, pass |-> NoPass]]

\* No function has been called on its own.
NoCall == [fn |-> "none", args |-> <<>>, value |-> <<>>]

\* The statuses the repository may hold when the ProjectDiff is constructed:
\* no entry at all, or every path modified.
InitialStatuses ==
    {[p \in RepoPaths |-> "none"], [p \in RepoPaths |-> "modified"]}

\* Mutant: new writes nothing into the channel.
InitWithoutKick ==
    /\ this = ProjectDiffNew("container")
    /\ update_needed = <<>>
    /\ pc = "waiting"
    /\ buffers_to_load = <<>>
    /\ alive = TRUE
    /\ active_repository = TRUE
    /\ statuses \in InitialStatuses
    /\ conflicts = {}
    /\ unmapped = {}
    /\ pass = NoPass
    /\ ended = NoneEnded
    /\ events = [count |-> 0, requested |-> 0, failures |-> 0]
    /\ returned = NoCall

\* The state after ProjectDiff::new: the worker is spawned and waits, and the
\* channel holds the signal new wrote ("Kick of a refresh immediately").
Init ==
    /\ this = ProjectDiffNew("container")
    /\ update_needed = WatchSend(<<>>)
    /\ pc = "waiting"
    /\ buffers_to_load = <<>>
    /\ alive = TRUE
    /\ active_repository = TRUE
    /\ statuses \in InitialStatuses
    /\ conflicts = {}
    /\ unmapped = {}
    /\ pass = NoPass
    /\ ended = NoneEnded
    /\ events = [count |-> 0, requested |-> 0, failures |-> 0]
    /\ returned = NoCall

\* ---------------------------------------------------------------- actions
\* The worker is woken at recv.next().await by a value in the channel.
WorkerReceive ==
    /\ alive
    /\ pc = "waiting"
    /\ WatchReady(update_needed)
    /\ WorkerSteps

\* The worker is woken at buffer_to_load.await by the end of that load.
WorkerResume ==
    /\ alive
    /\ pc = "loading"
    /\ LoopHasNext(buffers_to_load)
    /\ Finished(Head(buffers_to_load))
    /\ WorkerSteps

\* A spawned load ends: with Ok(DiffBuffer) when load_buffer.await and
\* open_uncommitted_diff(..).await both return Ok, with the error of the one
\* that fails otherwise (`?`).
LoadEnds(i, ok) ==
    /\ i \in 1..Len(buffers_to_load)
    /\ ~Finished(buffers_to_load[i])
    /\ ok \/ events.failures < MaxFailures
    /\ events' = [events EXCEPT !.failures = IF ok THEN @ ELSE @ + 1]
    /\ buffers_to_load' = [buffers_to_load EXCEPT ![i].state = IF ok THEN "ok" ELSE "err"]
    /\ UNCHANGED <<this, update_needed, pc, alive, active_repository, statuses,
                   conflicts, unmapped, pass, ended, returned>>

\* Mutant: an event that arrives while a pass is in progress writes nothing.
OnGitStoreEventDroppedInPass ==
    /\ update_needed' = IF pc = "loading" THEN update_needed ELSE WatchSend(update_needed)
    /\ pass' = [pass EXCEPT !.signals = IF pc = "loading" THEN @ + 1 ELSE @,
                            !.after = 0]
    /\ events' = [events EXCEPT !.count = @ + 1]

\* The git store subscription of ProjectDiff::new: any event of the git store
\* writes the channel.
OnGitStoreEvent ==
    /\ update_needed' = WatchSend(update_needed)
    /\ pass' = [pass EXCEPT !.signals = IF pc = "loading" THEN @ + 1 ELSE @,
                            !.after = 0]
    /\ events' = [events EXCEPT !.count = @ + 1]

\* The statuses a path can be given, with has_conflict and the mapping of
\* the path to a project path.
EntryChoices ==
    {[status |-> "unchanged", conflict |-> FALSE, mapped |-> TRUE],
     [status |-> "modified", conflict |-> FALSE, mapped |-> TRUE],
     [status |-> "created", conflict |-> FALSE, mapped |-> TRUE],
     [status |-> "deleted", conflict |-> FALSE, mapped |-> TRUE],
     [status |-> "modified", conflict |-> TRUE, mapped |-> TRUE],
     [status |-> "modified", conflict |-> FALSE, mapped |-> FALSE]}

\* The sets of paths whose status one update of the repository changes: one
\* path, or all of them.
ChangedTogether == {{p} : p \in RepoPaths} \cup {RepoPaths}

\* The repository's status changes for some paths and the git store emits an
\* event.
StatusChange(paths, choice) ==
    /\ alive
    /\ events.count < MaxEvents
    /\ paths # {}
    /\ statuses' = [p \in RepoPaths |-> IF p \in paths THEN choice.status ELSE statuses[p]]
    /\ conflicts' = IF choice.conflict THEN conflicts \cup paths ELSE conflicts \ paths
    /\ unmapped' = IF choice.mapped THEN unmapped \ paths ELSE unmapped \cup paths
    /\ <<statuses', conflicts', unmapped'>> # <<statuses, conflicts, unmapped>>
    /\ OnGitStoreEvent
    /\ UNCHANGED <<this, pc, buffers_to_load, alive, active_repository, ended, returned>>

\* The active repository is set or unset and the git store emits an event.
RepositoryChange ==
    /\ alive
    /\ events.count < MaxEvents
    /\ active_repository' = ~active_repository
    /\ OnGitStoreEvent
    /\ UNCHANGED <<this, pc, buffers_to_load, alive, statuses, conflicts, unmapped, ended,
                   returned>>

\* The git store emits an event that changes nothing the pass reads.
OtherGitStoreEvent ==
    /\ alive
    /\ events.count < MaxEvents
    /\ OnGitStoreEvent
    /\ UNCHANGED <<this, pc, buffers_to_load, alive, active_repository, statuses,
                   conflicts, unmapped, ended, returned>>

\* deploy_at or the git panel calls move_to_entry.
MoveToEntry(entry) ==
    /\ alive
    /\ events.count < MaxEvents
    /\ this' = move_to_entry(this, entry)
    /\ events' = [events EXCEPT !.count = @ + 1,
                                !.requested = IF this'.pending_scroll # this.pending_scroll
                                              THEN ended.n ELSE @]
    /\ UNCHANGED <<update_needed, pc, buffers_to_load, alive, active_repository,
                   statuses, conflicts, unmapped, pass, ended, returned>>

\* The ProjectDiff entity is released, and its _task with it: the worker is
\* cancelled where it waits and the loads it has not awaited are dropped. (A
\* closed window ends it the same way, at the next this.update / cx.update.)
\* With the entity its multibuffer, editor and channel are dropped, and nothing
\* reads the repository any more: the model stops following them.
Release ==
    /\ alive
    /\ alive' = FALSE
    /\ pc' = "done"
    /\ buffers_to_load' = <<>>
    /\ this' = ProjectDiffNew("other")
    /\ update_needed' = <<>>
    /\ active_repository' = TRUE
    /\ statuses' = [p \in RepoPaths |-> "none"]
    /\ conflicts' = {}
    /\ unmapped' = {}
    /\ pass' = NoPass
    /\ ended' = NoneEnded
    /\ events' = [count |-> 0, requested |-> 0, failures |-> 0]
    /\ UNCHANGED returned

Next ==
    \/ WorkerReceive
    \/ WorkerResume
    \/ \E i \in 1..NumPaths, ok \in BOOLEAN : LoadEnds(i, ok)
    \/ \E paths \in ChangedTogether, choice \in EntryChoices : StatusChange(paths, choice)
    \/ RepositoryChange
    \/ OtherGitStoreEvent
    \/ \E entry \in [repo_path : RepoPaths, status : {"modified", "created"}] :
           MoveToEntry(entry)
    \/ Release

Spec == Init /\ [][Next]_vars

\* The executor runs a task that can run: the worker when the channel holds a
\* value or the load it awaits has ended, and every spawned load to its end.
\* The claims about what eventually happens are checked with the paths in
\* one namespace: a status change makes paths unchanged, modified, or modified
\* without a project path.
FairEntryChoices ==
    {choice \in EntryChoices : choice.status \in {"unchanged", "modified"} /\ ~choice.conflict}

FairNext ==
    \/ WorkerReceive
    \/ WorkerResume
    \/ \E i \in 1..NumPaths, ok \in BOOLEAN : LoadEnds(i, ok)
    \/ \E paths \in ChangedTogether, choice \in FairEntryChoices : StatusChange(paths, choice)
    \/ RepositoryChange
    \/ OtherGitStoreEvent
    \/ \E entry \in [repo_path : RepoPaths, status : {"modified", "created"}] :
           MoveToEntry(entry)
    \/ Release

FairSpec ==
    /\ Init
    /\ [][FairNext]_vars
    /\ WF_vars(WorkerReceive)
    /\ WF_vars(WorkerResume)
    /\ WF_vars(\E i \in 1..NumPaths, ok \in BOOLEAN : LoadEnds(i, ok))

\* ----------------------------------------------- focus and folds by hand
\* ProjectDiffToolbar::dispatch_action focuses the ProjectDiff's focus handle
\* (Focusable::focus_handle): the container's while the view is empty, the
\* editor's otherwise. The action it dispatches goes to the editor.
DispatchAction ==
    /\ alive
    /\ this' = [this EXCEPT !.focus = IF MultiBufferIsEmpty(this.multibuffer)
                                      THEN "container" ELSE "editor"]
    /\ UNCHANGED <<update_needed, pc, buffers_to_load, alive, active_repository,
                   statuses, conflicts, unmapped, pass, ended, events, returned>>

\* ProjectDiffToolbar::dispatch_panel_action focuses the git panel.
DispatchPanelAction ==
    /\ alive
    /\ this' = [this EXCEPT !.focus = "other"]
    /\ UNCHANGED <<update_needed, pc, buffers_to_load, alive, active_repository,
                   statuses, conflicts, unmapped, pass, ended, events, returned>>

\* The user unfolds a folded buffer of the view in the editor.
UnfoldBuffer(buffer) ==
    /\ alive
    /\ buffer \in this.folded
    /\ \E key \in MultiBufferPaths(this.multibuffer) : key.path = buffer
    /\ this' = [this EXCEPT !.folded = @ \ {buffer}]
    /\ UNCHANGED <<update_needed, pc, buffers_to_load, alive, active_repository,
                   statuses, conflicts, unmapped, pass, ended, events, returned>>

\* The claims about focus and folds are checked with the paths unchanged,
\* modified or deleted, without conflicts, all with a project path.
FocusEntryChoices ==
    {choice \in EntryChoices :
        choice.status \in {"unchanged", "modified", "deleted"} /\ ~choice.conflict /\ choice.mapped}

FocusNext ==
    \/ WorkerReceive
    \/ WorkerResume
    \/ \E i \in 1..NumPaths, ok \in BOOLEAN : LoadEnds(i, ok)
    \/ \E paths \in ChangedTogether, choice \in FocusEntryChoices : StatusChange(paths, choice)
    \/ DispatchAction
    \/ DispatchPanelAction
    \/ \E buffer \in RepoPaths : UnfoldBuffer(buffer)
    \/ Release

FocusSpec == Init /\ [][FocusNext]_vars

\* ------------------------------------------------- the loads, observed
\* A spawned load ends, as in LoadEnds, and `returned` keeps it: the load that
\* ended last, with the number of its pass and its result.
LoadReturns(i, ok) ==
    /\ i \in 1..Len(buffers_to_load)
    /\ ~Finished(buffers_to_load[i])
    /\ ok \/ events.failures < MaxFailures
    /\ events' = [events EXCEPT !.failures = IF ok THEN @ ELSE @ + 1]
    /\ buffers_to_load' = [buffers_to_load EXCEPT ![i].state = IF ok THEN "ok" ELSE "err"]
    /\ returned' = [fn |-> "load",
                    args |-> <<buffers_to_load[i].pass, buffers_to_load[i].path_key>>,
                    value |-> IF ok THEN "Ok" ELSE "Err"]
    /\ UNCHANGED <<this, update_needed, pc, alive, active_repository, statuses,
                   conflicts, unmapped, pass, ended>>

OrderNext ==
    \/ WorkerReceive
    \/ WorkerResume
    \/ \E i \in 1..NumPaths, ok \in BOOLEAN : LoadReturns(i, ok)
    \/ \E paths \in ChangedTogether, choice \in FairEntryChoices : StatusChange(paths, choice)
    \/ Release

OrderSpec == Init /\ [][OrderNext]_vars

\* ---------------------------------------------- the requests, observed
\* deploy_at or the git panel calls move_to_entry, as in MoveToEntry, and
\* `returned` keeps the call: the entry, whether there was an active
\* repository, and the ProjectDiff before and after.
MoveToEntryReturns(entry) ==
    /\ alive
    /\ events.count < MaxEvents
    /\ this' = move_to_entry(this, entry)
    /\ events' = [events EXCEPT !.count = @ + 1,
                                !.requested = IF this'.pending_scroll # this.pending_scroll
                                              THEN ended.n ELSE @]
    /\ returned' = [fn |-> "move_to_entry",
                    args |-> <<entry, active_repository>>,
                    value |-> [before |-> this, after |-> this']]
    /\ UNCHANGED <<update_needed, pc, buffers_to_load, alive, active_repository,
                   statuses, conflicts, unmapped, pass, ended>>

RequestNext ==
    \/ WorkerReceive
    \/ WorkerResume
    \/ \E i \in 1..NumPaths, ok \in BOOLEAN : LoadEnds(i, ok)
    \/ \E paths \in ChangedTogether, choice \in FairEntryChoices : StatusChange(paths, choice)
    \/ RepositoryChange
    \/ \E entry \in [repo_path : RepoPaths, status : {"modified", "created"}] :
           MoveToEntryReturns(entry)
    \/ Release

RequestSpec == Init /\ [][RequestNext]_vars

\* ------------------------------------------ the functions, on their own
StatusKinds == {"none", "unchanged", "modified", "created", "deleted"}

\* A ProjectDiff with an empty view over any repository state.
ClassifyInit ==
    /\ this = ProjectDiffNew("container")
    /\ update_needed = <<>>
    /\ pc = "waiting"
    /\ buffers_to_load = <<>>
    /\ alive = TRUE
    /\ active_repository \in BOOLEAN
    /\ statuses \in [RepoPaths -> StatusKinds]
    /\ conflicts \in SUBSET RepoPaths
    /\ unmapped = {}
    /\ pass = NoPass
    /\ ended = NoneEnded
    /\ events = [count |-> 0, requested |-> 0, failures |-> 0]
    /\ returned = NoCall

\* move_to_entry(entry) is called; pending_scroll is the key it computed.
CallMoveToEntry(entry) ==
    /\ returned = NoCall
    /\ returned' = [fn |-> "move_to_entry",
                    args |-> <<entry>>,
                    value |-> move_to_entry(this, entry).pending_scroll]
    /\ UNCHANGED <<this, update_needed, pc, buffers_to_load, alive, active_repository,
                   statuses, conflicts, unmapped, pass, ended, events>>

\* load_buffers() is called; the loads it returns hold the keys it computed.
CallLoadBuffers ==
    /\ returned = NoCall
    /\ returned' = [fn |-> "load_buffers",
                    args |-> <<>>,
                    value |-> load_buffers(this, 1).result]
    /\ UNCHANGED <<this, update_needed, pc, buffers_to_load, alive, active_repository,
                   statuses, conflicts, unmapped, pass, ended, events>>

ClassifyNext ==
    \/ \E entry \in [repo_path : RepoPaths, status : StatusKinds \ {"none"}] :
           CallMoveToEntry(entry)
    \/ CallLoadBuffers

ClassifySpec == ClassifyInit /\ [][ClassifyNext]_vars

\* The snapshots of at most MaxRows rows.
Snapshots ==
    UNION {{[rows |-> rows, starts |-> starts \cup (IF n = 0 THEN {} ELSE {1})] :
               rows \in [1..n -> SecondaryStatuses \cup {"context"}],
               starts \in SUBSET (2..n)} : n \in 0..MaxRows}

\* The positions of a snapshot; the only position of an empty one is its start.
Anchors(snapshot) ==
    IF snapshot.rows = <<>> THEN {[row |-> 1, column |-> 0]}
    ELSE [row : 1..Len(snapshot.rows), column : {0, 1}]

Ranges(snapshot) ==
    {range \in [start : Anchors(snapshot), end : Anchors(snapshot)] :
        ~AnchorLess(range.end, range.start)}

\* The sets of at most n disjoint ranges.
RECURSIVE DisjointRanges(_, _)
DisjointRanges(snapshot, n) ==
    IF n = 0 THEN {{}}
    ELSE LET fewer == DisjointRanges(snapshot, n - 1)
         IN  fewer \cup
             UNION {{ranges \cup {range} :
                        range \in {r \in Ranges(snapshot) :
                                      \A other \in ranges :
                                          \/ AnchorLess(r.end, other.start)
                                          \/ AnchorLess(other.end, r.start)}} :
                    ranges \in fewer}

\* The selections of an editor: at least one, at most MaxSelections, disjoint.
Selections(snapshot) ==
    UNION {{[ranges |-> ranges, newest |-> newest] : newest \in ranges} :
           ranges \in DisjointRanges(snapshot, MaxSelections) \ {{}}}

GitPanels ==
    {None} \cup {Some(panel) : panel \in [can_stage_all : BOOLEAN, can_unstage_all : BOOLEAN]}

ButtonsInit ==
    /\ this = ProjectDiffNew("container")
    /\ update_needed = <<>>
    /\ pc = "waiting"
    /\ buffers_to_load = <<>>
    /\ alive = TRUE
    /\ active_repository = TRUE
    /\ statuses = [p \in RepoPaths |-> "none"]
    /\ conflicts = {}
    /\ unmapped = {}
    /\ pass = NoPass
    /\ ended = NoneEnded
    /\ events = [count |-> 0, requested |-> 0, failures |-> 0]
    /\ returned = NoCall

\* button_states() is called (by the toolbar's render).
CallButtonStates(snapshot, selections, git_panel) ==
    /\ returned = NoCall
    /\ returned' = [fn |-> "button_states",
                    args |-> <<snapshot, selections, git_panel>>,
                    value |-> button_states(snapshot, selections, git_panel)]
    /\ UNCHANGED <<this, update_needed, pc, buffers_to_load, alive, active_repository,
                   statuses, conflicts, unmapped, pass, ended, events>>

ButtonsNext ==
    /\ returned = NoCall
    /\ \E snapshot \in Snapshots :
           \E selections \in Selections(snapshot), git_panel \in GitPanels :
               CallButtonStates(snapshot, selections, git_panel)

ButtonsSpec == ButtonsInit /\ [][ButtonsNext]_vars

\* ================================================================= claims
ViewKeys == MultiBufferPaths(this.multibuffer)

EndedKeys == MultiBufferPaths(ended.view)

\* A step of the worker that completes a pass
PassCompletes == ended'.n > ended.n

\* C1: at most one refresh pass is in progress at any time. The passes begun
\* are at most one ahead of the passes completed; every load the worker has
\* not awaited was issued by the pass in progress; and once a pass has
\* completed (no pass in progress) every load it issued has been awaited,
\* none is left, also when signals arrived during the pass.
C1_OnePassAtATime ==
    /\ pass.n \in {ended.n, ended.n + 1}
    /\ \A i \in 1..Len(buffers_to_load) : buffers_to_load[i].pass = pass.n
    /\ pc = "loading" =>
           /\ pass.n = ended.n + 1
           /\ pass.issued = pass.registered \cup pass.failed \cup TaskKeys(buffers_to_load)
    /\ pc = "waiting" =>
           /\ pass.n = ended.n
           /\ buffers_to_load = <<>>
           /\ pass.issued = pass.registered \cup pass.failed

\* C1 witness: a pass is in progress, a load of it has been registered, another
\* is still awaited, and a signal has arrived meanwhile without starting a pass.
C1_Witness ==
    /\ pc = "loading"
    /\ pass.signals >= 1
    /\ WatchReady(update_needed)
    /\ pass.registered # {}
    /\ buffers_to_load # <<>>

\* C2: the passes begun since the last signal was written are at most one,
\* however many signals were written while a pass was in flight.
C2_SignalsCollapse == pass.after <= 1

\* C2 witness: two signals were written during a pass; one further pass has run
\* since and has completed, and the worker waits with nothing to receive.
C2_Witness ==
    /\ ended.n >= 2
    /\ ended.last.pass.signals >= 2
    /\ pass.n = ended.n
    /\ pass.after = 1
    /\ pc = "waiting"
    /\ ~WatchReady(update_needed)

\* C3 as stated: after a completed pass the keys of the view are exactly the
\* keys of the changed status entries the pass read.
C3_Original == ended.n > 0 => EndedKeys = ended.pass.changed

\* C3 amended: after a completed pass the keys of the view are exactly the keys
\* whose load the pass issued and registered, and the keys that were in the
\* view before the pass and whose load the pass issued and saw fail; all of
\* them are keys of changed entries the pass read; and when every changed entry
\* got a load and no load failed, they are exactly the keys of the changed
\* entries.
C3_KeysAfterPass ==
    ended.n > 0 =>
        /\ EndedKeys = ended.pass.registered \cup (ended.pass.failed \cap ended.pass.prev)
        /\ EndedKeys \subseteq ended.pass.changed
        /\ (ended.pass.issued = ended.pass.changed /\ ended.pass.failed = {})
               => EndedKeys = ended.pass.changed

\* C3 witness: a pass completed with a failed load of a new key, a registered
\* key, and the view holding the registered key only.
C3_Witness ==
    /\ ended.n > 0
    /\ ended.pass.failed # {}
    /\ ended.pass.failed \cap ended.pass.prev = {}
    /\ ended.pass.registered # {}
    /\ EndedKeys = ended.pass.registered

NamespaceRank(namespace) ==
    IF namespace = CONFLICT_NAMESPACE THEN 0
    ELSE IF namespace = TRACKED_NAMESPACE THEN 1
    ELSE 2

\* C5: in every state the excerpts of the view are in strictly increasing order
\* of (namespace, path), Conflicted before Tracked before New, so no key appears
\* twice.
C5_SortedUnique ==
    \A i, j \in 1..Len(this.multibuffer) :
        i < j =>
            LET a == this.multibuffer[i].key
                b == this.multibuffer[j].key
            IN  \/ NamespaceRank(a.namespace) < NamespaceRank(b.namespace)
                \/ /\ NamespaceRank(a.namespace) = NamespaceRank(b.namespace)
                   /\ a.path < b.path

\* C5 witness: the loads of a pass were registered in the order of the paths,
\* and the view shows a Conflicted key of a later path before a Tracked key and
\* a New key of an earlier path.
C5_Witness ==
    /\ Len(this.multibuffer) = 3
    /\ pass.registered = ViewKeys
    /\ this.multibuffer[1].key.namespace = CONFLICT_NAMESPACE
    /\ this.multibuffer[3].key.namespace = NEW_NAMESPACE
    /\ this.multibuffer[1].key.path > this.multibuffer[3].key.path

\* Two consecutive passes read the same status and had the same load results:
\* the same loads failed, and the repository did not change while they ran.
SamePassTwice ==
    /\ ended.n >= 2
    /\ ended.pass.snapshot = ended.last.pass.snapshot
    /\ ended.pass.failed = ended.last.pass.failed
    /\ ended.pass.signals = 0
    /\ ended.last.pass.signals = 0

\* C6: the view after the second of two such passes is the view after the
\* first: the same excerpts, in the same order, with the same ranges.
C6_Idempotent == SamePassTwice => ended.view = ended.last.view

\* C6 witness: two such passes over a status with changes, the second of which
\* registered keys that were already in the view.
C6_Witness ==
    /\ SamePassTwice
    /\ Len(ended.view) >= 2
    /\ ended.pass.registered = EndedKeys
    /\ ended.pass.prev = EndedKeys

\* C7: move_to_path(key), as move_to_entry calls it: with an excerpt for key in
\* the view the selection becomes the empty range at the excerpt's start and
\* pending_scroll is unchanged; without one the selection is unchanged and
\* pending_scroll becomes Some(key). The view is unchanged in both cases.
C7_MoveToPath ==
    [][\A p \in RepoPaths, status \in {"modified", "created"} :
          LET entry == [repo_path |-> p, status |-> status]
              key == PathKey(IF p \in conflicts THEN CONFLICT_NAMESPACE
                             ELSE IF status = "created" THEN NEW_NAMESPACE
                             ELSE TRACKED_NAMESPACE, p)
          IN  (MoveToEntry(entry) /\ active_repository) =>
                  /\ this'.multibuffer = this.multibuffer
                  /\ key \in ViewKeys =>
                         /\ this'.selection = [start |-> ExcerptStart(key),
                                               end |-> ExcerptStart(key)]
                         /\ this'.pending_scroll = this.pending_scroll
                  /\ key \notin ViewKeys =>
                         /\ this'.selection = this.selection
                         /\ this'.pending_scroll = Some(key)]_vars

\* C7 witness: in a view with excerpts, one request has moved the selection to
\* the start of the excerpt of its key (no pass navigated), and a later request
\* for a key without excerpt is pending.
C7_Witness ==
    /\ this.selection.start.kind = "excerpt"
    /\ this.selection.start.key \subseteq ViewKeys
    /\ pass.scrolled = {}
    /\ ended.pass.scrolled = {}
    /\ ended.last.pass.scrolled = {}
    /\ this.pending_scroll # None
    /\ this.pending_scroll \cap ViewKeys = {}

\* C8: a step that completes a pass leaves pending_scroll None; a step of the
\* worker that registers loads none of which is the pending key, into a view
\* that was not empty, leaves the selection as it was; and a navigation that
\* register_buffer performs is for a key requested after the pass before this
\* one completed.
C8_SingleShot ==
    [][/\ PassCompletes => this'.pending_scroll = None
       /\ (pass'.n = pass.n /\ pass'.registered # pass.registered
             /\ this.pending_scroll \cap pass'.registered = {}
             /\ ~MultiBufferIsEmpty(this.multibuffer))
            => this'.selection = this.selection
       /\ (pass'.n = pass.n /\ pass'.scrolled # pass.scrolled)
            => /\ this.pending_scroll \subseteq pass'.scrolled
               /\ this.pending_scroll # None
               /\ events.requested >= pass.n - 1]_vars

\* C8 witness: a pass completed with a pending key it did not load, the next
\* pass has registered that key, and no navigation took place.
C8_Witness ==
    /\ pass.n = ended.n + 1
    /\ ended.n >= 1
    /\ ended.pending # None
    /\ ended.pending \cap ended.pass.issued = {}
    /\ ended.pending \subseteq pass.registered
    /\ pass.scrolled = {}
    /\ this.selection = EmptyRangeAt(Offset0)
    /\ Len(this.multibuffer) >= 2

\* C9: when a pass has completed, every load it issued has been awaited, and
\* every key whose load succeeded is in the view, whatever loads failed.
C9_FailureIsolation ==
    /\ ended.n > 0 =>
           /\ ended.pass.issued = ended.pass.registered \cup ended.pass.failed
           /\ ended.pass.registered \subseteq EndedKeys
    /\ pass.registered \subseteq ViewKeys

\* C9 witness: a pass completed in which a load failed and the loads issued
\* before it and after it were registered.
C9_Witness ==
    /\ ended.n > 0
    /\ \E f \in ended.pass.failed :
           /\ \E r \in ended.pass.registered : r.path < f.path
           /\ \E r \in ended.pass.registered : r.path > f.path
    /\ ended.pass.registered \subseteq EndedKeys

\* C10: the worker has ended only if the ProjectDiff is gone; and a step that
\* completes a pass in which a load failed leaves the ProjectDiff alive with
\* pending_scroll cleared and the worker either waiting, with no signal left in
\* the channel, or already in the pass that the pending signal asked for.
C10_WorkerSurvivesFailure ==
    /\ [](pc = "done" => ~alive)
    /\ [][(PassCompletes /\ ended'.pass.failed # {}) =>
              /\ alive'
              /\ this'.pending_scroll = None
              /\ pc' \in {"waiting", "loading"}
              /\ pc' = "waiting" => ~WatchReady(update_needed')
              /\ pc' = "loading" => pass'.n = ended'.n + 1]_vars

\* C10 witness: a load failed in a pass, the pass completed, and a further pass
\* has run after it and registered a load.
C10_Witness ==
    /\ alive
    /\ ended.n >= 2
    /\ ended.last.pass.failed # {}
    /\ ended.pass.registered # {}
    /\ pc = "waiting"

\* C11: a pass that starts without an active repository issues no load,
\* registers nothing and has completed when the worker next waits, with the
\* view empty whatever keys it held; the ProjectDiff is alive and the worker
\* has not ended, it waits for the next signal or is already in the pass that
\* the next signal asked for.
C11_NoActiveRepository ==
    /\ (pass.n > 0 /\ ~pass.snapshot.repo) =>
           /\ pass.issued = {}
           /\ pass.registered = {}
           /\ pass.n = ended.n
           /\ pc = "waiting"
           /\ ViewKeys = {}
    /\ (ended.n > 0 /\ ~ended.pass.snapshot.repo) =>
           /\ ended.view = <<>>
           /\ ended.pass.issued = {}
           /\ alive
           /\ pc \in {"waiting", "loading"}
    /\ (ended.n > 1 /\ ~ended.last.pass.snapshot.repo) => ended.last.view = <<>>

\* C11 witness: a pass found no active repository when the view held keys, and
\* the pass after it has read a repository again and registered loads.
C11_Witness ==
    /\ ended.n >= 2
    /\ ~ended.last.pass.snapshot.repo
    /\ ended.last.pass.prev # {}
    /\ ended.last.view = <<>>
    /\ ended.pass.snapshot.repo
    /\ ended.pass.registered # {}

\* The namespace the policy gives an entry: Conflicted when the path has a
\* conflict, else New when the status is created, else Tracked.
PolicyNamespace(entry) ==
    IF entry.repo_path \in conflicts THEN CONFLICT_NAMESPACE
    ELSE IF entry.status = "created" THEN NEW_NAMESPACE
    ELSE TRACKED_NAMESPACE

\* C12: for every entry and repository state, the key move_to_entry computes
\* has the namespace of the policy and the entry's path; every load that
\* load_buffers issues is for a status entry with changes, holds the key of
\* the policy for that entry, and that key is the one move_to_entry computes
\* for the same entry in the same repository state; and load_buffers issues a
\* load for every entry with changes.
C12_PathClassification ==
    /\ (returned.fn = "move_to_entry" /\ active_repository) =>
           LET entry == returned.args[1]
           IN  returned.value = Some(PathKey(PolicyNamespace(entry), entry.repo_path))
    /\ returned.fn = "load_buffers" =>
           /\ \A i \in 1..Len(returned.value) :
                  LET task == returned.value[i]
                      entry == [repo_path |-> task.buffer, status |-> task.file_status]
                  IN  /\ statuses[entry.repo_path] = entry.status
                      /\ entry.status \in {"modified", "created", "deleted"}
                      /\ task.path_key = PathKey(PolicyNamespace(entry), entry.repo_path)
                      /\ move_to_entry(this, entry).pending_scroll = Some(task.path_key)
           /\ active_repository =>
                  {returned.value[i].buffer : i \in 1..Len(returned.value)}
                      = {p \in RepoPaths : statuses[p] \in {"modified", "created", "deleted"}}

\* C12 witness: load_buffers has issued loads for three entries: a created
\* file with a conflict under Conflicted, a created file without one under New
\* and a deleted file under Tracked.
C12_Witness ==
    /\ returned.fn = "load_buffers"
    /\ Len(returned.value) = 3
    /\ \E i, j, k \in 1..3 :
           /\ returned.value[i].file_status = "created"
           /\ returned.value[i].path_key.namespace = CONFLICT_NAMESPACE
           /\ returned.value[j].file_status = "created"
           /\ returned.value[j].path_key.namespace = NEW_NAMESPACE
           /\ returned.value[k].file_status = "deleted"
           /\ returned.value[k].path_key.namespace = TRACKED_NAMESPACE

\* The rows of the hunks that touch the active range set of a call of
\* button_states.
ScannedRows(snapshot, selections) ==
    {i \in 1..Len(snapshot.rows) :
        /\ snapshot.rows[i] # "context"
        /\ \E range \in ScannedRanges(snapshot, selections) :
               range.start.row <= i /\ i <= range.end.row}

\* C13: stage is enabled iff some hunk that touches the active range set has
\* secondary status HasSecondaryHunk, SecondaryHunkAdditionPending or
\* OverlapsWithSecondaryHunk, and unstage iff some such hunk has None,
\* SecondaryHunkRemovalPending or OverlapsWithSecondaryHunk. With a staged hunk
\* (None) and an unstaged hunk (HasSecondaryHunk), a range over the row of the
\* staged hunk only gives stage = false, unstage = true, and a range over both
\* rows gives stage = true, unstage = true.
C13_ActionState ==
    returned.fn = "button_states" =>
        LET snapshot == returned.args[1]
            selections == returned.args[2]
            scanned == {snapshot.rows[i] : i \in ScannedRows(snapshot, selections)}
            staged_row == CHOOSE i \in 1..2 : snapshot.rows[i] = "None"
        IN  /\ returned.value.stage <=>
                   scanned \cap {"HasSecondaryHunk", "SecondaryHunkAdditionPending",
                                 "OverlapsWithSecondaryHunk"} # {}
            /\ returned.value.unstage <=>
                   scanned \cap {"None", "SecondaryHunkRemovalPending",
                                 "OverlapsWithSecondaryHunk"} # {}
            /\ (/\ Len(snapshot.rows) = 2
                /\ {snapshot.rows[1], snapshot.rows[2]} = {"None", "HasSecondaryHunk"}
                /\ Cardinality(selections.ranges) = 1
                /\ selections.newest.start # selections.newest.end) =>
                   /\ (selections.newest.start.row = staged_row
                         /\ selections.newest.end.row = staged_row)
                        => ~returned.value.stage /\ returned.value.unstage
                   /\ (selections.newest.start.row = 1 /\ selections.newest.end.row = 2)
                        => returned.value.stage /\ returned.value.unstage

\* C13 witness: button_states was called with a staged hunk on row 1, an
\* unstaged hunk on row 2 and the selection of row 1, and returned
\* stage = false, unstage = true.
C13_Witness ==
    /\ returned.fn = "button_states"
    /\ returned.args[1].rows = <<"None", "HasSecondaryHunk">>
    /\ returned.args[2].ranges = {[start |-> [row |-> 1, column |-> 0],
                                   end |-> [row |-> 1, column |-> 1]]}
    /\ ~returned.value.stage
    /\ returned.value.unstage

\* The worker is idle: it waits at recv.next() and the channel holds nothing.
WorkerIdle == pc = "waiting" /\ ~WatchReady(update_needed)

\* The excerpts of the changed entries of the repository's status now that
\* map to a project path, each with the hunks of its diff now; none without
\* an active repository.
ExcerptsOfStatus ==
    IF ~active_repository THEN {}
    ELSE {[key |-> PathKey(PolicyNamespace([repo_path |-> p, status |-> statuses[p]]), p),
           ranges |-> <<statuses[p]>>] :
              p \in {q \in RepoPaths : has_changes(statuses[q]) /\ q \notin unmapped}}

ViewExcerpts == {this.multibuffer[i] : i \in 1..Len(this.multibuffer)}

\* C14 as stated: once the status changes have stopped, and if no load fails,
\* eventually and from then on the worker is idle and the keys of the view are
\* the keys of the changed entries of the status.
C14_Original ==
    <>[](\/ ~alive
         \/ events.failures > 0
         \/ /\ WorkerIdle
            /\ ViewKeys = (IF active_repository THEN ChangedKeys ELSE {}))

\* C14 amended: once the status changes have stopped, and if no load fails,
\* eventually and from then on the worker is idle and the view holds exactly
\* one excerpt for every changed entry of the status that maps to a project
\* path, with the hunks of its diff as it is then, and nothing when there is
\* no active repository; the claim holds as long as the ProjectDiff lives.
C14_Convergence ==
    <>[](\/ ~alive
         \/ events.failures > 0
         \/ /\ WorkerIdle
            /\ ViewExcerpts = ExcerptsOfStatus
            /\ Len(this.multibuffer) = Cardinality(ExcerptsOfStatus))

\* C14 witness: a view with excerpts became empty in a pass that read a status
\* without changes, the next pass has shown a file again with the diff it has
\* now, and the worker is idle with every changed entry in the view.
C14_Witness ==
    /\ ended.n >= 3
    /\ ended.last.pass.prev # {}
    /\ ended.last.pass.snapshot.repo
    /\ ended.last.pass.changed = {}
    /\ ended.last.view = <<>>
    /\ ended.view # <<>>
    /\ this.multibuffer = ended.view
    /\ ViewExcerpts = ExcerptsOfStatus
    /\ events.failures = 0
    /\ WorkerIdle
    /\ alive

\* C17: after construction a refresh pass eventually runs, as long as the
\* ProjectDiff lives, whether or not the git store ever emits an event.
C17_InitialRefresh == <>(pass.n >= 1 \/ ~alive)

\* C17 witness: a pass has run to its end and no git store event was emitted
\* and no request made.
C17_Witness ==
    /\ ended.n = 1
    /\ events.count = 0
    /\ alive
    /\ WorkerIdle

\* C15 as stated: a pass that begins with the editor focused and a view with
\* excerpts, reads a status without changes and so prunes every key, ends
\* with the focus on the container's focus handle.
C15_FocusReturnsToContainer ==
    [][(/\ pc = "waiting"
        /\ ended'.n = ended.n + 1
        /\ this.focus = "editor"
        /\ ~MultiBufferIsEmpty(this.multibuffer)
        /\ ended'.pass.snapshot.repo
        /\ ended'.pass.changed = {}
        /\ MultiBufferIsEmpty(ended'.view))
       => this'.focus = "container"]_vars

\* The record of the pass that was in progress, after a step: the step may
\* have ended that pass, and may have begun and ended the next one as well.
PassAfterStep ==
    IF pass'.n = pass.n THEN pass'
    ELSE IF ended'.n = pass.n THEN ended'.pass
    ELSE ended'.last.pass

\* The keys that a step of the worker, resumed at buffer_to_load.await,
\* registers for the pass that was in progress.
RegisteredInStep ==
    IF pc # "loading" THEN {}
    ELSE PassAfterStep.registered \ pass.registered

\* C16: a step of the worker that registers loads into a view that was empty
\* leaves the selection at the empty range at position 0, unless one of the
\* loads is for the pending key: then the selection is at the start of that
\* key's excerpt (the navigation is applied after the reset). A step that
\* registers loads into a view that was not empty leaves the selection as it
\* was, unless one of the loads is for the pending key.
C16_SelectionReset ==
    [][RegisteredInStep # {} =>
          this'.selection =
              IF this.pending_scroll # None /\ this.pending_scroll \subseteq RegisteredInStep
              THEN EmptyRangeAt(ExcerptStart(CHOOSE key \in this.pending_scroll : TRUE))
              ELSE IF MultiBufferIsEmpty(this.multibuffer)
              THEN EmptyRangeAt(Offset0)
              ELSE this.selection]_vars

\* C16 witness: the pass before this one navigated to an excerpt, this pass
\* has pruned every key of the view and registered a load into the empty view,
\* and the selection is the empty range at position 0.
C16_Witness ==
    /\ pc = "loading"
    /\ ended.n >= 1
    /\ ended.pass.scrolled # {}
    /\ pass.prev # {}
    /\ pass.prev \cap pass.issued = {}
    /\ pass.registered # {}
    /\ this.selection = EmptyRangeAt(Offset0)

\* The stale keys of the pass in progress, or of the last pass: in the view
\* before the pass, not a key of a changed entry of the status the pass read.
StaleKeys == pass.prev \ pass.changed

\* C18: from the moment load_buffers of a pass has returned, and so before and
\* while the loads of the pass are registered, the view holds no stale key of
\* the pass; no state shows a key the pass registered together with a stale
\* key of the pass, and no load is registered in the step that removes them.
C18_RemovalsFirst ==
    /\ [](/\ StaleKeys \cap ViewKeys = {}
          /\ pass.registered \cap StaleKeys = {})
    /\ [][pass'.n # pass.n => pass'.registered = {} /\ StaleKeys' \cap ViewKeys' = {}]_vars

\* C18 witness: a pass found stale keys in the view, has registered one of
\* its loads and still awaits another, and the view holds no stale key.
C18_Witness ==
    /\ pc = "loading"
    /\ StaleKeys # {}
    /\ pass.registered # {}
    /\ buffers_to_load # <<>>
    /\ StaleKeys \cap ViewKeys = {}

\* The keys to which the pass that was in progress has navigated, after a
\* step of the worker.
ScrolledAfterStep == PassAfterStep.scrolled

\* C19: when a pass has completed with pending_scroll = Some(key) at its end
\* and an excerpt for key in the view, the pass has navigated to key; while
\* pending_scroll is Some(key) and the view has an excerpt for key, a pass is
\* in progress and has navigated to key; and the step that registers the load
\* of the pending key puts the selection at the start of its excerpt.
C19_PendingScrollPerformed ==
    /\ []((ended.n > 0 /\ ended.pending # None /\ ended.pending \subseteq EndedKeys)
              => ended.pending \subseteq ended.pass.scrolled)
    /\ []((this.pending_scroll # None /\ this.pending_scroll \subseteq ViewKeys)
              => pc = "loading" /\ this.pending_scroll \subseteq pass.scrolled)
    /\ [][(this.pending_scroll # None /\ this.pending_scroll \subseteq RegisteredInStep) =>
              /\ this'.selection =
                     EmptyRangeAt(ExcerptStart(CHOOSE key \in this.pending_scroll : TRUE))
              /\ this.pending_scroll \subseteq ScrolledAfterStep]_vars

\* C19 witness: a pass completed with a pending key for which the view has an
\* excerpt, the pass navigated to it, the selection is at the start of that
\* excerpt, which is not the first of the view, and pending_scroll is cleared.
C19_Witness ==
    /\ ended.n > 0
    /\ pass.n = ended.n
    /\ ended.pending # None
    /\ ended.pending \subseteq EndedKeys
    /\ ended.pending \subseteq ended.pass.scrolled
    /\ this.selection.start.key = ended.pending
    /\ this.multibuffer[1].key \notin ended.pending
    /\ this.pending_scroll = None

\* The excerpts of a view for a key
ExcerptsFor(view, key) == {view[i] : i \in {j \in 1..Len(view) : view[j].key = key}}

\* The pass `next` issues a load for the path of every key whose load failed
\* in the pass `previous`, if the status it reads still reports the path with
\* changes (and the path maps to a project path, in an active repository).
Retried(previous, next) ==
    \A key \in previous.failed :
        (/\ next.snapshot.repo
         /\ has_changes(next.snapshot.statuses[key.path])
         /\ key.path \notin next.snapshot.unmapped)
        => \E issued \in next.issued : issued.path = key.path

UnmappedChanged(ps) ==
    {p \in RepoPaths : has_changes(ps.snapshot.statuses[p]) /\ p \in ps.snapshot.unmapped}

MappedChanged(ps) ==
    {p \in RepoPaths : has_changes(ps.snapshot.statuses[p]) /\ p \notin ps.snapshot.unmapped}

KeyPaths(keys) == {key.path : key \in keys}

\* C21: for a pass that read an active repository, no load is issued for a
\* changed entry whose path maps to no project path, and none fails for it; a
\* load is issued for every other changed entry, before and after it in the
\* status; the pass completes with every load it issued awaited, and the worker
\* has not ended while the ProjectDiff lives.
C21_UnmappedSkipped ==
    /\ \A ps \in {pass, ended.pass, ended.last.pass} :
           (ps.n > 0 /\ ps.snapshot.repo) =>
               /\ UnmappedChanged(ps) \cap KeyPaths(ps.issued \cup ps.failed \cup ps.registered) = {}
               /\ KeyPaths(ps.issued) = MappedChanged(ps)
    /\ ended.n > 0 => ended.pass.issued = ended.pass.registered \cup ended.pass.failed
    /\ alive => pc # "done"

\* C21 witness: a pass read a status whose second entry has changes and no
\* project path, issued loads for the entries before and after it, registered
\* both and completed; no load failed.
C21_Witness ==
    /\ ended.n > 0
    /\ pass.n = ended.n
    /\ pc = "waiting"
    /\ UnmappedChanged(ended.pass) = {2}
    /\ KeyPaths(ended.pass.registered) = {1, 3}
    /\ ended.pass.failed = {}
    /\ KeyPaths(EndedKeys) = {1, 3}

\* Two rows of a snapshot are in the same excerpt: no excerpt starts after the
\* one and at or before the other.
SameExcerpt(snapshot, i, j) ==
    \A start \in snapshot.starts :
        ~((i < start /\ start <= j) \/ (j < start /\ start <= i))

\* The rows of the hunks of a snapshot
HunkRows(snapshot) == {i \in 1..Len(snapshot.rows) : snapshot.rows[i] # "context"}

\* The rows of the hunks in the active range set the claim describes.
ActiveHunkRows(snapshot, selections) ==
    IF \E range \in selections.ranges : range.start # range.end
    THEN {i \in HunkRows(snapshot) :
             \E range \in selections.ranges : range.start.row <= i /\ i <= range.end.row}
    ELSE {i \in HunkRows(snapshot) : SameExcerpt(snapshot, i, selections.newest.end.row)}

\* C22: the selection flag of button_states is true iff some selection range
\* is not empty; then the hunks scanned are those that touch a selection
\* range, otherwise they are the hunks of the excerpt under the cursor; stage
\* and unstage are the flags of exactly those hunks, and in a view without
\* excerpts nothing is scanned and stage and unstage are both false.
C22_ActiveRanges ==
    returned.fn = "button_states" =>
        LET snapshot == returned.args[1]
            selections == returned.args[2]
            hunks == diff_hunks_in_ranges(ScannedRanges(snapshot, selections), snapshot)
            scanned == {hunks[i].row : i \in 1..Len(hunks)}
            flags == ScanHunks(SelectSeq(DiffHunks(snapshot),
                                         LAMBDA hunk : hunk.row \in ActiveHunkRows(snapshot, selections)),
                               [has_staged_hunks |-> FALSE, has_unstaged_hunks |-> FALSE])
        IN  /\ returned.value.selection <=>
                   \E range \in selections.ranges : range.start # range.end
            /\ scanned = ActiveHunkRows(snapshot, selections)
            /\ returned.value.stage = flags.has_unstaged_hunks
            /\ returned.value.unstage = flags.has_staged_hunks
            /\ snapshot.rows = <<>> =>
                   /\ ~returned.value.selection
                   /\ scanned = {}
                   /\ ~returned.value.stage
                   /\ ~returned.value.unstage

\* C22 witness: button_states was called with the cursor on the first row of
\* an excerpt of two rows whose hunk, unstaged, is on the second row, as the
\* single empty selection; selection is false and stage is true.
C22_Witness ==
    /\ returned.fn = "button_states"
    /\ returned.args[1] = [rows |-> <<"context", "HasSecondaryHunk">>, starts |-> {1}]
    /\ returned.args[2].ranges = {[start |-> [row |-> 1, column |-> 0],
                                   end |-> [row |-> 1, column |-> 0]]}
    /\ ~returned.value.selection
    /\ returned.value.stage
    /\ ~returned.value.unstage

\* C23: when register_buffer has taken the view from empty to non-empty, the
\* editor has received the focus iff the container's focus handle held it
\* before (the focus that the editor held already stays with it); and a step
\* of the worker that registers loads while neither the container nor the
\* editor holds the focus leaves the focus where it is.
C23_FocusOnFirstExcerpt ==
    /\ [](\A ps \in {pass, ended.pass, ended.last.pass} :
              \A h \in ps.into_empty :
                  /\ (h.before # "editor" /\ h.after = "editor") <=> h.before = "container"
                  /\ h.before = "editor" => h.after = "editor"
                  /\ h.before = "other" => h.after = "other")
    /\ [][(RegisteredInStep # {} /\ this.focus = "other") => this'.focus = "other"]_vars

\* C23 witness: the view was emptied while the editor held the focus, the
\* focus then went to the git panel, and the pass in progress has registered a
\* load into the empty view without taking the focus; the pass before it had
\* found the container focused and given the focus to the editor.
C23_Witness ==
    /\ pc = "loading"
    /\ pass.into_empty = Some([before |-> "other", after |-> "other"])
    /\ this.focus = "other"
    /\ ~MultiBufferIsEmpty(this.multibuffer)
    /\ \/ ended.pass.into_empty = Some([before |-> "container", after |-> "editor"])
       \/ ended.last.pass.into_empty = Some([before |-> "container", after |-> "editor"])

\* C24 as stated: a step of the worker that registers a load whose status is
\* deleted leaves the buffer of that load folded.
C24_Original ==
    [][\A key \in RegisteredInStep :
           is_deleted(pass.snapshot.statuses[key.path]) => key.path \in this'.folded]_vars

\* C24 amended: a step of the worker that registers a load whose status is
\* deleted for a key that had no excerpt leaves the buffer of that load folded;
\* when the key had an excerpt already, the registration replaces the excerpt
\* and leaves the buffer folded or unfolded as it was.
C24_FoldsDeleted ==
    [][\A key \in RegisteredInStep :
           is_deleted(pass.snapshot.statuses[key.path]) =>
               IF key \notin pass.prev
               THEN key.path \in this'.folded
               ELSE key.path \in this'.folded <=> key.path \in this.folded]_vars

\* C24 witness: the first pass read path 2 as deleted and the others as
\* modified and registered the three loads; the buffer of path 2 is folded and
\* no other is.
C24_Witness ==
    /\ ended.n = 1
    /\ pass.n = 1
    /\ ended.pass.snapshot.statuses[2] = "deleted"
    /\ KeyPaths(ended.pass.registered) = {1, 2, 3}
    /\ ended.pass.prev = {}
    /\ this.folded = {2}

\* Key a comes before key b in the order in which a pass registered its loads.
RegisteredBefore(ps, a, b) ==
    \E i, j \in 1..Len(ps.order) : i < j /\ ps.order[i] = a /\ ps.order[j] = b

\* The load that ended last is a load of the pass ps and has been registered:
\* every other load that ps has registered ended before it.
LastEndedRegistered(ps) ==
    /\ returned.fn = "load"
    /\ returned.value = "Ok"
    /\ returned.args[1] = ps.n
    /\ returned.args[2] \in ps.registered

\* C25 as stated: a load that ended before another load of the pass is
\* registered no later than it: every load registered by the pass was
\* registered before the load of the pass that ended last.
C25_Original ==
    LastEndedRegistered(pass) =>
        \A key \in pass.registered \ {returned.args[2]} :
            RegisteredBefore(pass, key, returned.args[2])

\* C25 amended: the loads of a pass are registered in the order in which they
\* were issued (the order of the status entries, that is of the paths),
\* whatever the order in which they ended: a load is registered only when every
\* load issued before it has ended, so a load that ended first is registered
\* after a load issued before it that ended later.
C25_IssueOrder ==
    /\ \A ps \in {pass, ended.pass, ended.last.pass} :
           /\ \A i, j \in 1..Len(ps.order) : i < j => ps.order[i].path < ps.order[j].path
           /\ {ps.order[i] : i \in 1..Len(ps.order)} = ps.registered
    /\ \A key \in pass.registered \cup pass.failed :
           \A i \in 1..Len(buffers_to_load) : key.path < buffers_to_load[i].path_key.path
    /\ LastEndedRegistered(pass) =>
           \A key \in pass.registered \ {returned.args[2]} :
               RegisteredBefore(pass, key, returned.args[2]) <=> key.path < returned.args[2].path

\* C25 witness: the load of path 1 was the last of its pass to end, after the
\* loads of paths 2 and 3, and the pass registered it first.
C25_Witness ==
    /\ LastEndedRegistered(pass)
    /\ returned.args[2].path = 1
    /\ Len(pass.order) = 3
    /\ pass.order[1] = returned.args[2]
    /\ pass.failed = {}

\* The view shows a key for path p and the status reports p without changes.
StaleShown(p) ==
    /\ alive
    /\ ~has_changes(statuses[p])
    /\ \E key \in ViewKeys : key.path = p

\* C26: a key that a pass registered and that is not a key of a changed entry
\* of the status the next pass reads is out of the view from the moment the
\* next pass has run load_buffers, and at its end; and the passes that the
\* change signals ask for do occur: from some moment on the view shows no key
\* for a path that the status reports without changes, whether or not loads
\* fail, as long as the ProjectDiff lives.
C26_StalenessWindow ==
    /\ [](/\ pass.n = ended.n + 1 =>
                 \A key \in ended.pass.registered : key \notin pass.changed => key \notin ViewKeys
          /\ ended.n >= 2 =>
                 \A key \in ended.last.pass.registered :
                     key \notin ended.pass.changed => key \notin EndedKeys)
    /\ <>[](\A p \in RepoPaths : ~StaleShown(p))

\* C26 witness: the pass before the last registered a load for a path that had
\* no changes any more, a signal had arrived during it, and the last pass
\* found the key in the view and removed it.
C26_Witness ==
    /\ alive
    /\ WorkerIdle
    /\ ended.n >= 2
    /\ ended.last.pass.signals >= 1
    /\ \E i \in 1..Len(ended.last.view) :
           /\ ended.last.view[i].key \in ended.last.pass.registered
           /\ ~has_changes(ended.last.view[i].ranges[1])
           /\ ended.last.view[i].key \in ended.pass.prev
           /\ ended.last.view[i].key \notin EndedKeys
           /\ ended.last.view[i].key \notin ViewKeys

\* A step of the worker that runs code of a refresh pass: it begins a pass
\* (load_buffers) or goes on in the for loop (register_buffer, log_err).
PassStep ==
    \/ pass'.n > pass.n
    \/ Len(buffers_to_load') < Len(buffers_to_load)

\* C27: while the ProjectDiff lives, a step that changes the view (its keys,
\* their order or the ranges of an excerpt) is a step of the worker in a
\* refresh pass; a request of navigation (move_to_entry, move_to_path), the
\* arrival of a change signal and the end of a load leave the view as it is.
C27_ViewOwnedByPass ==
    [][/\ (alive' /\ this'.multibuffer # this.multibuffer) => (alive /\ PassStep)
       /\ events'.count > events.count => this'.multibuffer = this.multibuffer
       /\ this'.pending_scroll \notin {this.pending_scroll, None}
              => this'.multibuffer = this.multibuffer
       /\ (alive' /\ pass' = pass /\ buffers_to_load' # buffers_to_load)
              => this'.multibuffer = this.multibuffer]_vars

\* C27 witness: after a pass completed with excerpts in the view, a change
\* signal has arrived and a request for a key without excerpt has been
\* recorded, and the view is as the pass left it.
C27_Witness ==
    /\ alive
    /\ pc = "waiting"
    /\ ended.n >= 1
    /\ pass.signals = 0
    /\ WatchReady(update_needed)
    /\ this.pending_scroll # None
    /\ Len(ended.view) >= 2
    /\ this.multibuffer = ended.view

\* What load_buffers would read of the repository now.
StatusNow ==
    [repo |-> active_repository, statuses |-> statuses,
     conflicts |-> conflicts, unmapped |-> unmapped]

\* C28: as long as the ProjectDiff lives, a signal that no pass has begun
\* after is still in the channel, also when it was written while a pass was
\* in flight; a pass that begins reads the status as it is then; and
\* eventually every signal written has been followed by a pass that began
\* after it, and the channel is empty.
C28_NoSignalLost ==
    /\ []((alive /\ pass.after = 0) => WatchReady(update_needed))
    /\ [][pass'.n > pass.n => pass'.n = pass.n + 1 /\ pass'.snapshot = StatusNow]_vars
    /\ <>[](~alive \/ (pass.after >= 1 /\ ~WatchReady(update_needed)))

\* C28 witness: a signal was written while a pass was in flight, after the
\* pass had read the status; the pass after it has read a different status
\* and has completed, and the worker is idle.
C28_Witness ==
    /\ alive
    /\ WorkerIdle
    /\ ended.n >= 2
    /\ ended.last.pass.signals = 1
    /\ ended.last.pass.issued # {}
    /\ ended.pass.snapshot # ended.last.pass.snapshot
    /\ ended.pass.snapshot = StatusNow
    /\ pass.after = 1

\* C29: a call of move_to_entry made without an active repository leaves the
\* ProjectDiff as it was (pending_scroll, the selection, the view, and with
\* them the folds and the focus), and the channel, the worker and its loads
\* too; a pending request made before stays as it was.
C29_NoRepositoryNoOp ==
    /\ []((returned.fn = "move_to_entry" /\ ~returned.args[2])
              => returned.value.after = returned.value.before)
    /\ [][\A p \in RepoPaths, status \in {"modified", "created"} :
              (MoveToEntryReturns([repo_path |-> p, status |-> status]) /\ ~active_repository)
                  => UNCHANGED <<this, update_needed, pc, buffers_to_load, pass, ended>>]_vars

\* C29 witness: the view shows an excerpt for the path of the entry, the
\* active repository has gone and no pass has run since, move_to_entry was
\* called, and the selection has not moved to the excerpt and nothing is
\* pending.
C29_Witness ==
    /\ returned.fn = "move_to_entry"
    /\ ~returned.args[2]
    /\ ~active_repository
    /\ this = returned.value.before
    /\ PathKey(TRACKED_NAMESPACE, returned.args[1].repo_path) \in ViewKeys
    /\ returned.args[1].status = "modified"
    /\ this.selection = EmptyRangeAt(Offset0)
    /\ this.pending_scroll = None

\* The paths that the status a pass read reports without protecting their
\* key: the entry has no changes, or has changes and no project path.
ReportedUnloaded(ps) ==
    {p \in RepoPaths :
        \/ ps.snapshot.statuses[p] = "unchanged"
        \/ has_changes(ps.snapshot.statuses[p]) /\ p \in ps.snapshot.unmapped}

\* The passes of which the state keeps a record, each with the view it left
\* (the view now, for the pass in progress or the last one).
PassViews ==
    {[pass |-> pass, view |-> this.multibuffer],
     [pass |-> ended.pass, view |-> ended.view],
     [pass |-> ended.last.pass, view |-> ended.last.view]}

\* C30: for a pass that read an active repository, a key that was in the view
\* before the pass is in the view after load_buffers, and to the end of the
\* pass, iff the pass issued a load for that key; so the key of a path whose
\* entry is reported without changes, or with changes and without a project
\* path, is removed by the pass.
C30_SkippedEntriesPruned ==
    \A pv \in PassViews :
        (pv.pass.n > 0 /\ pv.pass.snapshot.repo) =>
            \A key \in pv.pass.prev :
                /\ key \in MultiBufferPaths(pv.view) <=> key \in pv.pass.issued
                /\ key.path \in ReportedUnloaded(pv.pass) => key \notin MultiBufferPaths(pv.view)

\* C30 witness: the view held the keys of three paths; the pass read the
\* first without changes, the second with changes and without a project path
\* and the third with changes, removed the keys of the first two and kept the
\* third.
C30_Witness ==
    /\ ended.n >= 2
    /\ pass.n = ended.n
    /\ KeyPaths(ended.pass.prev) = {1, 2, 3}
    /\ ended.pass.snapshot.statuses[1] = "unchanged"
    /\ has_changes(ended.pass.snapshot.statuses[2])
    /\ 2 \in ended.pass.snapshot.unmapped
    /\ KeyPaths(ended.pass.issued) = {3}
    /\ KeyPaths(EndedKeys) = {3}
    /\ ended.pass.issued \subseteq ended.pass.prev

\* C31: register_buffer folds a buffer only for a key that it newly added and
\* whose status is deleted. A step of the worker folds no buffer but those of
\* the loads it registers with status deleted for keys that had no excerpt; a
\* load registered for a key that had an excerpt leaves its buffer folded or
\* unfolded as it was; a load whose status is not deleted leaves its buffer
\* folded or unfolded as it was; and no other step folds a buffer.
C31_FoldOnlyNewDeleted ==
    [][/\ this'.folded \ this.folded \subseteq
              {key.path : key \in {k \in RegisteredInStep :
                                      /\ k \notin pass.prev
                                      /\ is_deleted(pass.snapshot.statuses[k.path])}}
       /\ \A key \in RegisteredInStep :
              (key \in pass.prev \/ ~is_deleted(pass.snapshot.statuses[key.path])) =>
                  (key.path \in this'.folded <=> key.path \in this.folded)]_vars

\* C31 witness: the pass before the last one registered path 1 as deleted for a
\* key without excerpt (and so folded it), the buffer was unfolded, and the last
\* pass registered the load of path 1, still deleted, for the key in the view
\* while the buffer was unfolded; the buffer is not folded.
C31_Witness ==
    /\ ended.n = 2
    /\ ended.last.pass.snapshot.statuses[1] = "deleted"
    /\ \E key \in ended.last.pass.registered : key.path = 1 /\ key \notin ended.last.pass.prev
    /\ ended.pass.snapshot.statuses[1] = "deleted"
    /\ \E key \in ended.pass.registered : key.path = 1 /\ key \in ended.pass.prev
    /\ 1 \in ended.pass.kept_unfolded
    /\ 1 \notin this.folded

====
